---- MODULE Spec2Model ----
(***************************************************************************)
(* A model of llm_clean_data.py: the column summarizer, the placeholder    *)
(* resolver (one request to a text-generation model, whose reply is        *)
(* evaluated), the dataset cleaner, and the command-line run of main().    *)
(*                                                                         *)
(* Text is a sequence of one-character strings, so that the numeric        *)
(* pattern, the text form of a number and the iteration over a string are  *)
(* computed and not assumed.                                               *)
(***************************************************************************)
EXTENDS Integers, Sequences, FiniteSets

VARIABLES
    pc,                  \* the position of the run
    args,                \* the command line: file_ext, columns, output_dir
    api_key_set,         \* whether GOOGLE_API_KEY is in the environment
    dir_exists,          \* whether the output directory exists on disk
    df,                  \* the loaded DataFrame
    columns_to_check,    \* the list of column names analysed and cleaned
    value_counts,        \* the column summaries sent to the model
    response,            \* the reply of the model
    placeholder_strings, \* the value eval() made of the reply
    df_clean,            \* the result of clean_dataframe
    df_reclean,          \* clean_dataframe applied to its own result
    error,               \* the exception raised, if any
    model_calls,         \* the number of generate_content requests made
    written,             \* the files written: a sequence of DataFrames
    exit_status          \* the exit status of the process, once it ended

vars == << pc, args, api_key_set, dir_exists, df, columns_to_check,
           value_counts, response, placeholder_strings, df_clean,
           df_reclean, error, model_calls, written, exit_status >>

\* Python's None, and an argument that was given.
None == [none |-> TRUE]
Some(x) == [some |-> TRUE, val |-> x]

----------------------------------------------------------------------------
(* Bounds of the model.                                                    *)

\* The rows of a dataset of a command-line run.
MaxRows == 2
\* The rows of a dataset handed to clean_dataframe alone.
MaxCleanRows == 2
\* How often one value occurs in a column handed to the summarizer alone.
MaxRep == 2

----------------------------------------------------------------------------
(* Cells.  A cell is a Python str, a number, or NaN (a missing cell as     *)
(* loaded); NA is pd.NA, which clean_dataframe writes.                     *)

StrCell(s) == [t |-> "str", s |-> s, n |-> 0]
IntCell(n) == [t |-> "int", s |-> << >>, n |-> n]
NaN == [t |-> "nan", s |-> << >>, n |-> 0]
NA == [t |-> "NA", s |-> << >>, n |-> 0]

IsMissing(cell) == cell.t \in {"nan", "NA"}

DigitChar(d) ==
    CASE d = 0 -> "0" [] d = 1 -> "1" [] d = 2 -> "2" [] d = 3 -> "3"
      [] d = 4 -> "4" [] d = 5 -> "5" [] d = 6 -> "6" [] d = 7 -> "7"
      [] d = 8 -> "8" [] d = 9 -> "9"

RECURSIVE NatText(_)
NatText(n) ==
    IF n < 10 THEN << DigitChar(n) >>
    ELSE NatText(n \div 10) \o << DigitChar(n % 10) >>

\* str() of a Python int.
IntText(n) == IF n < 0 THEN << "-" >> \o NatText(-n) ELSE NatText(n)

\* str() of a float holding an integral value.
FloatText(n) == IntText(n) \o << ".", "0" >>

\* A column holding numbers and NaN only is loaded as float64, and one
\* holding numbers only as int64; any str cell makes it an object column,
\* whose numbers stay Python ints.  A column with no rows is an object column.
IsObjectColumn(col) == col = << >> \/ \E i \in DOMAIN col : col[i].t = "str"

IsFloatColumn(col) ==
    /\ ~IsObjectColumn(col)
    /\ \E i \in DOMAIN col : col[i].t = "nan"

\* series.astype(str), one cell.
CellText(cell, isFloat) ==
    CASE cell.t = "str" -> cell.s
      [] cell.t = "int" -> IF isFloat THEN FloatText(cell.n) ELSE IntText(cell.n)
      [] cell.t = "nan" -> << "n", "a", "n" >>
      [] cell.t = "NA" -> << "<", "N", "A", ">" >>

AsTypeStr(col) == [i \in DOMAIN col |-> CellText(col[i], IsFloatColumn(col))]

----------------------------------------------------------------------------
(* The numeric-literal pattern ^[-+]?[0-9]*\.?[0-9]+([eE][-+]?[0-9]+)?$    *)
(* as re.match applies it: a nondeterministic automaton, run on the whole  *)
(* text.  "$" also matches before one trailing newline.                    *)

Digits == {"0", "1", "2", "3", "4", "5", "6", "7", "8", "9"}
Signs == {"-", "+"}

\* The states: 0 start, 1 after the sign, 2 in [0-9]*, 3 after the point,
\* 4 in [0-9]+, 5 after e or E, 6 after the sign of the exponent,
\* 7 in the digits of the exponent, 8 after the trailing newline.
PatternStep(q, c) ==
    CASE q = 0 -> IF c \in Signs THEN {1}
                  ELSE IF c \in Digits THEN {2, 4}
                  ELSE IF c = "." THEN {3} ELSE {}
      [] q = 1 -> IF c \in Digits THEN {2, 4}
                  ELSE IF c = "." THEN {3} ELSE {}
      [] q = 2 -> IF c \in Digits THEN {2, 4}
                  ELSE IF c = "." THEN {3} ELSE {}
      [] q = 3 -> IF c \in Digits THEN {4} ELSE {}
      [] q = 4 -> IF c \in Digits THEN {4}
                  ELSE IF c \in {"e", "E"} THEN {5}
                  ELSE IF c = "\n" THEN {8} ELSE {}
      [] q = 5 -> IF c \in Signs THEN {6}
                  ELSE IF c \in Digits THEN {7} ELSE {}
      [] q = 6 -> IF c \in Digits THEN {7} ELSE {}
      [] q = 7 -> IF c \in Digits THEN {7}
                  ELSE IF c = "\n" THEN {8} ELSE {}
      [] q = 8 -> {}

RECURSIVE PatternRun(_, _)
PatternRun(qs, text) ==
    IF text = << >> THEN qs
    ELSE PatternRun(UNION {PatternStep(q, Head(text)) : q \in qs}, Tail(text))

\* counts.index.str.match(pattern), one text.
NumericMatch(text) == PatternRun({0}, text) \cap {4, 7, 8} # {}

----------------------------------------------------------------------------
(* The column summarizer: lines 33 to 50 of identify_placeholder_strings.  *)

RECURSIVE Uniques(_)
\* The distinct texts of a series, in the order of their first appearance.
Uniques(series) ==
    IF series = << >> THEN << >>
    ELSE LET rest == Uniques(SubSeq(series, 1, Len(series) - 1))
             last == series[Len(series)]
         IN  IF \E i \in DOMAIN rest : rest[i] = last THEN rest
             ELSE Append(rest, last)

CountOf(series, text) == Cardinality({i \in DOMAIN series : series[i] = text})

\* Where a stable sort by descending count puts one more entry: after every
\* entry whose count is at least as high.
InsertByCount(sorted, e) ==
    LET before == SelectSeq(sorted, LAMBDA x : x.count >= e.count)
        after == SelectSeq(sorted, LAMBDA x : x.count < e.count)
    IN  before \o << e >> \o after

RECURSIVE SortByCount(_)
SortByCount(entries) ==
    IF entries = << >> THEN << >>
    ELSE InsertByCount(SortByCount(SubSeq(entries, 1, Len(entries) - 1)),
                       entries[Len(entries)])

\* series.value_counts(): one entry per distinct text, the highest count
\* first, texts of equal count in the order of their first appearance.
ValueCounts(series) ==
    LET u == Uniques(series)
    IN  SortByCount([i \in DOMAIN u |->
                        [key |-> u[i], count |-> CountOf(series, u[i])]])

\* The numeric examples kept for the prompt.
TopNumeric == 5

\* A summarizer that forgets the limit: counts, whatever n is.
HeadNoLimit(counts, n) == counts

\* counts.head(n)
HeadN(counts, n) == SubSeq(counts, 1, IF Len(counts) < n THEN Len(counts) ELSE n)

\* counts.to_dict()
ToDict(counts) ==
    [k \in {counts[i].key : i \in DOMAIN counts} |->
        (CHOOSE e \in {counts[i] : i \in DOMAIN counts} : e.key = k).count]

\* A summarizer that keeps a column only when no value is numeric-looking.
HasOnlyNonNumeric(counts) == \A i \in DOMAIN counts : ~NumericMatch(counts[i].key)

\* Whether the column is summarized: any(~counts.index.str.match(...)).
HasNonNumeric(counts) == \E i \in DOMAIN counts : ~NumericMatch(counts[i].key)

NumericCounts(counts) ==
    HeadN(SelectSeq(counts, LAMBDA e : NumericMatch(e.key)), TopNumeric)

NonNumericCounts(counts) == SelectSeq(counts, LAMBDA e : ~NumericMatch(e.key))

ColumnSummary(counts) ==
    [numeric_examples |-> ToDict(NumericCounts(counts)),
     non_numeric_values |-> ToDict(NonNumericCounts(counts))]

\* The columns of a DataFrame: a DataFrame is a record with the sequence
\* of its column names and, per name, the sequence of its cells.
HasColumn(d, col) == \E i \in DOMAIN d.columns : d.columns[i] = col

\* The loop of lines 34 to 50: the summaries of the columns checked.
SummarizeColumns(d, cols) ==
    LET counts(col) == ValueCounts(AsTypeStr(d.data[col]))
        kept == {cols[i] : i \in DOMAIN cols} 
    IN  [col \in {c \in kept : HasNonNumeric(counts(c))} |->
            ColumnSummary(counts(col))]

----------------------------------------------------------------------------
(* Python values: what eval() returns and clean_dataframe iterates.        *)

PyList(elems) == [py |-> "list", elems |-> elems, s |-> << >>, n |-> 0]
PyTuple(elems) == [py |-> "tuple", elems |-> elems, s |-> << >>, n |-> 0]
PyStr(s) == [py |-> "str", elems |-> << >>, s |-> s, n |-> 0]
PyInt(n) == [py |-> "int", elems |-> << >>, s |-> << >>, n |-> n]

\* Whether "for placeholder in value" can run.
IsIterable(value) == value # None /\ value.py \in {"list", "tuple", "str"}

\* What "for placeholder in value" yields: the elements of a list or a
\* tuple, the characters of a str.
IterateOver(value) ==
    IF value.py = "str" THEN [i \in DOMAIN value.s |-> StrCell(<< value.s[i] >>)]
    ELSE value.elems

\* Whether Series.isin(value) accepts the value: a list-like, not a str.
IsListLike(value) == value # None /\ value.py \in {"list", "tuple"}

----------------------------------------------------------------------------
(* The reply of the model, by what the text is, and eval() of it.          *)

Reply(kind, elems, s, n) == [kind |-> kind, elems |-> elems, s |-> s, n |-> n]

\* Whether the text is a list literal whose elements are all string literals.
IsListOfStrings(r) ==
    r.kind = "list" /\ \A i \in DOMAIN r.elems : r.elems[i].t = "str"

\* eval(response.text), line 84: the value of a literal, the result of the
\* call list(), and SyntaxError for prose and for a fenced block.
EvalRaises(r) == r.kind \in {"prose", "fenced"}

EvalValue(r) ==
    CASE r.kind = "list" -> PyList(r.elems)
      [] r.kind = "tuple" -> PyTuple(r.elems)
      [] r.kind = "str" -> PyStr(r.s)
      [] r.kind = "num" -> PyInt(r.n)
      [] r.kind = "call" -> PyList(<< >>)

----------------------------------------------------------------------------
(* The dataset cleaner: clean_dataframe, lines 86 to 102.                  *)

\* Whether Series.replace(placeholder, pd.NA) replaces the cell: the cell
\* equals the placeholder as Python values compare, so a str never equals a
\* number and a missing cell equals nothing.
CellEquals(cell, placeholder) ==
    cell.t \in {"str", "int"} /\ cell = placeholder

\* A replacement that stops at the first cell it replaces.
ReplaceFirstOnly(col, placeholder) ==
    [i \in DOMAIN col |->
        IF /\ CellEquals(col[i], placeholder)
           /\ \A j \in 1..(i - 1) : ~CellEquals(col[j], placeholder)
        THEN NA ELSE col[i]]

\* df_clean[col].replace(placeholder, pd.NA)
ReplaceValue(col, placeholder) ==
    [i \in DOMAIN col |-> IF CellEquals(col[i], placeholder) THEN NA ELSE col[i]]

RECURSIVE ReplaceAll(_, _)
\* The inner loop, lines 99 and 100, on one column.
ReplaceAll(col, placeholders) ==
    IF placeholders = << >> THEN col
    ELSE ReplaceAll(ReplaceValue(col, Head(placeholders)), Tail(placeholders))

RECURSIVE CleanColumns(_, _, _)
\* The outer loop, line 98.
CleanColumns(d, placeholders, cols) ==
    IF cols = << >> THEN d
    ELSE CleanColumns(
            [d EXCEPT !.data[Head(cols)] = ReplaceAll(@, placeholders)],
            placeholders, Tail(cols))

\* df_clean[col] of a name that is no column raises KeyError; line 100 runs
\* only for a placeholder, so an empty list reads no column.
CleanRaisesKeyError(d, placeholder_list, cols) ==
    /\ IsIterable(placeholder_list)
    /\ IterateOver(placeholder_list) # << >>
    /\ \E i \in DOMAIN cols : ~HasColumn(d, cols[i])

\* "for placeholder in placeholder_list" raises TypeError when it runs (the
\* list of columns is not empty) on a value that cannot be iterated.
CleanRaisesTypeError(placeholder_list, cols) ==
    cols # << >> /\ ~IsIterable(placeholder_list)

\* A cleaner that replaces in every column of the dataset.
CleanDataFrameEveryColumn(d, placeholder_list, cols) ==
    IF cols = << >> \/ IterateOver(placeholder_list) = << >> THEN d
    ELSE CleanColumns(d, IterateOver(placeholder_list), d.columns)

\* clean_dataframe(df, placeholder_list, columns_to_clean), when it returns.
CleanDataFrame(d, placeholder_list, cols) ==
    IF cols = << >> \/ IterateOver(placeholder_list) = << >> THEN d
    ELSE CleanColumns(d, IterateOver(placeholder_list), cols)

----------------------------------------------------------------------------
(* The inputs of the model.                                                *)

T45 == << "4", "5" >>
TNA == << "N", "/", "A" >>
TMale == << "M", "a", "l", "e" >>
TAbsent == << "z" >>

DataFrame(columns, data) == [columns |-> columns, data |-> data]

\* The datasets with the columns Age and Sex, up to n rows, the cells of each
\* column drawn from a set.
TwoColumnFrames(ageCells, sexCells, n) ==
    UNION { { DataFrame(<< "Age", "Sex" >>, [c \in {"Age", "Sex"} |->
                            IF c = "Age" THEN a ELSE x]) :
                a \in [1..k -> ageCells], x \in [1..k -> sexCells] } :
            k \in 0..n }

RunFrames ==
    TwoColumnFrames({StrCell(T45), StrCell(TNA), IntCell(45), NaN},
                    {StrCell(TMale), StrCell(TNA)}, MaxRows)

\* --columns: absent, or a list of names; Zip is no column of the datasets.
RunColumns ==
    { None, Some(<< "Age" >>), Some(<< "Sex", "Age" >>),
      Some(<< "Age", "Zip" >>), Some(<< "Age", "Age" >>) }

RunArgs ==
    [file_ext : {"csv", "xlsx", "txt"}, columns : RunColumns,
     output_dir : {Some("out"), None}]

\* The replies the model may give.
Replies ==
    { Reply("list", << >>, << >>, 0),
      Reply("list", << StrCell(TNA) >>, << >>, 0),
      Reply("list", << StrCell(TNA), StrCell(T45) >>, << >>, 0),
      Reply("list", << StrCell(TAbsent) >>, << >>, 0),
      Reply("list", << IntCell(45) >>, << >>, 0),
      Reply("tuple", << StrCell(TNA) >>, << >>, 0),
      Reply("str", << >>, TNA, 0),
      Reply("num", << >>, << >>, 45),
      Reply("call", << >>, << >>, 0),
      Reply("prose", << >>, << >>, 0),
      Reply("fenced", << StrCell(TNA) >>, << >>, 0) }

----------------------------------------------------------------------------
(* The run of the command-line tool.                                       *)

Exception(type, what, names) == [type |-> type, what |-> what, names |-> names]

Init ==
    /\ pc = "import"
    /\ args \in RunArgs
    /\ api_key_set \in BOOLEAN
    /\ dir_exists \in BOOLEAN
    /\ df = None
    /\ columns_to_check = << >>
    /\ value_counts = None
    /\ response = None
    /\ placeholder_strings = None
    /\ df_clean = None
    /\ df_reclean = None
    /\ error = None
    /\ model_calls = 0
    /\ written = << >>
    /\ exit_status = None

\* Lines 8 to 14: without the key the import raises and the process ends.
Import ==
    /\ pc = "import"
    /\ IF api_key_set
       THEN pc' = "load" /\ UNCHANGED << error, exit_status >>
       ELSE /\ pc' = "crashed"
            /\ error' = Exception("ValueError", "credential", << >>)
            /\ exit_status' = 1
    /\ UNCHANGED << args, api_key_set, dir_exists, df, columns_to_check,
                    value_counts, response, placeholder_strings, df_clean,
                    df_reclean, model_calls, written >>

\* What an exception raised inside the try block of main does.
Raise(e) == pc' = "handler" /\ error' = e

\* Lines 116 to 121: the file is read, or the format is refused.
Load ==
    /\ pc = "load"
    /\ IF args.file_ext \in {"csv", "xlsx", "xls"}
       THEN \/ \E d \in RunFrames :
                 df' = d /\ pc' = "select" /\ UNCHANGED error
            \/ Raise(Exception("FileNotFoundError", "read", << >>))
                 /\ UNCHANGED df
       ELSE Raise(Exception("ValueError", "unsupported_format", << >>))
                 /\ UNCHANGED df
    /\ UNCHANGED << args, api_key_set, dir_exists, columns_to_check,
                    value_counts, response, placeholder_strings, df_clean,
                    df_reclean, model_calls, written, exit_status >>

\* df.select_dtypes(include=['object']).columns.tolist()
ObjectColumns(d) == SelectSeq(d.columns, LAMBDA c : IsObjectColumn(d.data[c]))

\* Lines 125 to 127.
SelectColumns ==
    /\ pc = "select"
    /\ columns_to_check' =
          IF args.columns # None THEN args.columns.val ELSE ObjectColumns(df)
    /\ pc' = "validate"
    /\ UNCHANGED << args, api_key_set, dir_exists, df, value_counts, response,
                    placeholder_strings, df_clean, df_reclean, error,
                    model_calls, written, exit_status >>

\* A validation that finds no name invalid.
InvalidColsNone(d, cols) == << >>

\* Line 26.
InvalidCols(d, cols) == SelectSeq(cols, LAMBDA c : ~HasColumn(d, c))

\* Lines 26 to 28 of identify_placeholder_strings.
Validate ==
    /\ pc = "validate"
    /\ IF InvalidCols(df, columns_to_check) # << >>
       THEN Raise(Exception("ValueError", "columns_not_found",
                            InvalidCols(df, columns_to_check)))
       ELSE pc' = "summarize" /\ UNCHANGED error
    /\ UNCHANGED << args, api_key_set, dir_exists, df, columns_to_check,
                    value_counts, response, placeholder_strings, df_clean,
                    df_reclean, model_calls, written, exit_status >>

\* A name listed twice makes sample_df[col] a DataFrame, whose value_counts
\* has no .str accessor on its index: AttributeError at line 41.
HasRepeatedName(cols) ==
    \E i, j \in DOMAIN cols : i # j /\ cols[i] = cols[j]

\* Lines 31 to 50.  df[columns_to_check] raises KeyError for a name that
\* is no column.
Summarize ==
    /\ pc = "summarize"
    /\ IF \E i \in DOMAIN columns_to_check : ~HasColumn(df, columns_to_check[i])
       THEN Raise(Exception("KeyError", "getitem", << >>))
                /\ UNCHANGED value_counts
       ELSE IF HasRepeatedName(columns_to_check)
       THEN Raise(Exception("AttributeError", "str_accessor", << >>))
                /\ UNCHANGED value_counts
       ELSE /\ value_counts' = SummarizeColumns(df, columns_to_check)
            /\ pc' = "request"
            /\ UNCHANGED error
    /\ UNCHANGED << args, api_key_set, dir_exists, df, columns_to_check,
                    response, placeholder_strings, df_clean, df_reclean,
                    model_calls, written, exit_status >>

\* Lines 81 and 82: one request; the service replies or the transport raises.
CallModel ==
    /\ pc = "request"
    /\ model_calls' = model_calls + 1
    /\ \/ \E r \in Replies : response' = r /\ pc' = "eval" /\ UNCHANGED error
       \/ Raise(Exception("ServiceError", "generate_content", << >>))
            /\ UNCHANGED response
    /\ UNCHANGED << args, api_key_set, dir_exists, df, columns_to_check,
                    value_counts, placeholder_strings, df_clean, df_reclean,
                    written, exit_status >>

\* Lines 83 and 84, and the return to line 130.
EvalResponse ==
    /\ pc = "eval"
    /\ IF EvalRaises(response)
       THEN Raise(Exception("SyntaxError", "eval", << >>))
                /\ UNCHANGED placeholder_strings
       ELSE /\ placeholder_strings' = EvalValue(response)
            /\ pc' = "clean"
            /\ UNCHANGED error
    /\ UNCHANGED << args, api_key_set, dir_exists, df, columns_to_check,
                    value_counts, response, df_clean, df_reclean,
                    model_calls, written, exit_status >>

\* Line 135: clean_dataframe(df, placeholder_strings, columns_to_check).
Clean ==
    /\ pc = "clean"
    /\ IF CleanRaisesTypeError(placeholder_strings, columns_to_check)
       THEN Raise(Exception("TypeError", "not_iterable", << >>))
                /\ UNCHANGED df_clean
       ELSE /\ df_clean' = CleanDataFrame(df, placeholder_strings, columns_to_check)
            /\ pc' = "report"
            /\ UNCHANGED error
    /\ UNCHANGED << args, api_key_set, dir_exists, df, columns_to_check,
                    value_counts, response, placeholder_strings, df_reclean,
                    model_calls, written, exit_status >>

\* Lines 138 to 143: isin() refuses a value that is not list-like.
Report ==
    /\ pc = "report"
    /\ IF columns_to_check # << >> /\ ~IsListLike(placeholder_strings)
       THEN Raise(Exception("TypeError", "isin", << >>))
       ELSE pc' = "makedirs" /\ UNCHANGED error
    /\ UNCHANGED << args, api_key_set, dir_exists, df, columns_to_check,
                    value_counts, response, placeholder_strings, df_clean,
                    df_reclean, model_calls, written, exit_status >>

\* Line 146: os.makedirs(args.output_dir, exist_ok=True).
MakeDirs ==
    /\ pc = "makedirs"
    /\ IF args.output_dir = None
       THEN Raise(Exception("TypeError", "makedirs", << >>))
                /\ UNCHANGED dir_exists
       ELSE dir_exists' = TRUE /\ pc' = "write" /\ UNCHANGED error
    /\ UNCHANGED << args, api_key_set, df, columns_to_check, value_counts,
                    response, placeholder_strings, df_clean, df_reclean,
                    model_calls, written, exit_status >>

\* A main that writes the file in both formats.
WriteFileTwice ==
    /\ pc = "write"
    /\ written' = written \o << [ext |-> "csv", content |-> df_clean],
                               [ext |-> "xlsx", content |-> df_clean] >>
    /\ pc' = "done"
    /\ exit_status' = 0
    /\ UNCHANGED << args, api_key_set, dir_exists, df, columns_to_check,
                    value_counts, response, placeholder_strings, df_clean,
                    df_reclean, error, model_calls >>

\* Lines 147 to 152, and the return of main.
WriteFile ==
    /\ pc = "write"
    /\ written' = Append(written, [ext |-> args.file_ext, content |-> df_clean])
    /\ pc' = "done"
    /\ exit_status' = 0
    /\ UNCHANGED << args, api_key_set, dir_exists, df, columns_to_check,
                    value_counts, response, placeholder_strings, df_clean,
                    df_reclean, error, model_calls >>

\* A handler that ends the process with a failure status.
HandlerExits ==
    /\ pc = "handler"
    /\ pc' = "done"
    /\ exit_status' = 1
    /\ UNCHANGED << args, api_key_set, dir_exists, df, columns_to_check,
                    value_counts, response, placeholder_strings, df_clean,
                    df_reclean, error, model_calls, written >>

\* Lines 154 and 155: the message is printed and main returns.
Handler ==
    /\ pc = "handler"
    /\ pc' = "done"
    /\ exit_status' = 0
    /\ UNCHANGED << args, api_key_set, dir_exists, df, columns_to_check,
                    value_counts, response, placeholder_strings, df_clean,
                    df_reclean, error, model_calls, written >>

Next ==
    \/ Import
    \/ Load
    \/ SelectColumns
    \/ Validate
    \/ Summarize
    \/ CallModel
    \/ EvalResponse
    \/ Clean
    \/ Report
    \/ MakeDirs
    \/ WriteFile
    \/ Handler

Spec == Init /\ [][Next]_vars

----------------------------------------------------------------------------
(* The summarizer alone, on columns long enough to have more distinct      *)
(* numeric values than are kept.                                           *)

\* The values of such a column: six distinct numeric-looking texts, one of
\* them also as a number, and one value that is not numeric-looking.
SummaryValues ==
    << StrCell(<< "1" >>), StrCell(<< "2" >>), IntCell(2), StrCell(<< "-", "4" >>),
       StrCell(<< "1", ".", "5" >>), StrCell(<< "6", "e", "1" >>), IntCell(7),
       StrCell(TNA) >>

RECURSIVE Repeat(_, _)
Repeat(x, k) == IF k = 0 THEN << >> ELSE << x >> \o Repeat(x, k - 1)

RECURSIVE Blocks(_, _)
\* The column holding reps[i] times the i-th value, value after value.
Blocks(reps, i) ==
    IF i > Len(SummaryValues) THEN << >>
    ELSE Repeat(SummaryValues[i], reps[i]) \o Blocks(reps, i + 1)

Reverse(s) == [i \in DOMAIN s |-> s[Len(s) + 1 - i]]

\* A column of the summarizer: every value up to MaxRep times, the values
\* in their order or in the reverse order.
SummaryColumn(reps, reversed) ==
    IF reversed THEN Reverse(Blocks(reps, 1)) ELSE Blocks(reps, 1)

InitSummary ==
    /\ pc = "validate"
    /\ args = [file_ext |-> "xlsx", columns |-> Some(<< "Age" >>),
               output_dir |-> Some("out")]
    /\ api_key_set = TRUE
    /\ dir_exists = FALSE
    /\ \E reps \in [DOMAIN SummaryValues -> 0..MaxRep], reversed \in BOOLEAN :
          df = DataFrame(<< "Age" >>,
                         [c \in {"Age"} |-> SummaryColumn(reps, reversed)])
    /\ columns_to_check = << "Age" >>
    /\ value_counts = None
    /\ response = None
    /\ placeholder_strings = None
    /\ df_clean = None
    /\ df_reclean = None
    /\ error = None
    /\ model_calls = 0
    /\ written = << >>
    /\ exit_status = None

NextSummary ==
    \/ Validate
    \/ Summarize

SpecSummary == InitSummary /\ [][NextSummary]_vars

----------------------------------------------------------------------------
(* clean_dataframe alone, on any dataset, placeholder list and column      *)
(* list, and applied to its own result.                                    *)

CleanFrames ==
    TwoColumnFrames({StrCell(T45), StrCell(TNA), IntCell(45), NaN},
                    {StrCell(TMale), StrCell(TNA)}, MaxCleanRows)

CleanPlaceholderLists ==
    { PyList(<< >>), PyList(<< StrCell(TNA) >>), PyList(<< StrCell(T45) >>),
      PyList(<< StrCell(TNA), StrCell(T45), StrCell(TNA) >>),
      PyList(<< StrCell(<< "n", "a", "n" >>), StrCell(TMale) >>) }

CleanColumnLists ==
    { << >>, << "Age" >>, << "Sex" >>, << "Sex", "Age" >>, << "Age", "Age" >>,
      << "Age", "Zip" >> }

InitClean ==
    /\ pc = "clean"
    /\ args = [file_ext |-> "xlsx", columns |-> None, output_dir |-> None]
    /\ api_key_set = TRUE
    /\ dir_exists = FALSE
    /\ df \in CleanFrames
    /\ columns_to_check \in CleanColumnLists
    /\ value_counts = None
    /\ response = None
    /\ placeholder_strings \in CleanPlaceholderLists
    /\ df_clean = None
    /\ df_reclean = None
    /\ error = None
    /\ model_calls = 0
    /\ written = << >>
    /\ exit_status = None

\* clean_dataframe(df, placeholder_list, columns_to_clean) called by itself:
\* it returns, or a name that is no column raises KeyError.
CleanOnce ==
    /\ pc = "clean"
    /\ IF CleanRaisesKeyError(df, placeholder_strings, columns_to_check)
       THEN /\ pc' = "raised"
            /\ error' = Exception("KeyError", "getitem", << >>)
            /\ UNCHANGED df_clean
       ELSE /\ df_clean' = CleanDataFrame(df, placeholder_strings, columns_to_check)
            /\ pc' = "cleaned"
            /\ UNCHANGED error
    /\ UNCHANGED << args, api_key_set, dir_exists, df, columns_to_check,
                    value_counts, response, placeholder_strings, df_reclean,
                    model_calls, written, exit_status >>

\* clean_dataframe(df_clean, placeholder_list, columns_to_clean)
CleanAgain ==
    /\ pc = "cleaned"
    /\ df_reclean' = CleanDataFrame(df_clean, placeholder_strings, columns_to_check)
    /\ pc' = "recleaned"
    /\ UNCHANGED << args, api_key_set, dir_exists, df, columns_to_check,
                    value_counts, response, placeholder_strings, df_clean,
                    error, model_calls, written, exit_status >>

NextClean ==
    \/ CleanOnce
    \/ CleanAgain

SpecClean == InitClean /\ [][NextClean]_vars

----------------------------------------------------------------------------
(* The claims about clean_dataframe, under SpecClean.                      *)

\* clean_dataframe returned.
CleanReturned == pc \in {"cleaned", "recleaned"}

\* The target columns that are columns of the dataset.
TargetColumns ==
    {columns_to_check[k] : k \in DOMAIN columns_to_check} \cap DOMAIN df.data

\* The cell of df at a column and a row has a text form equal to a string of
\* the placeholder list.
TextIsPlaceholder(col, i) ==
    \E j \in DOMAIN placeholder_strings.elems :
        /\ placeholder_strings.elems[j].t = "str"
        /\ AsTypeStr(df.data[col])[i] = placeholder_strings.elems[j].s

\* C1: in the dataset clean_dataframe returns, every cell of a target column
\* whose text form equals a string of the placeholder list holds the
\* missing-value marker, whether the cell is a text cell or a number.
C1_PlaceholderCellsBecomeMissing ==
    CleanReturned =>
        \A col \in TargetColumns : \A i \in DOMAIN df.data[col] :
            TextIsPlaceholder(col, i) => IsMissing(df_clean.data[col][i])

\* C2: clean_dataframe keeps the columns, their order and the rows, and
\* every cell of a column that is no target column keeps its value.
C2_OtherColumnsUnaltered ==
    CleanReturned =>
        /\ df_clean.columns = df.columns
        /\ DOMAIN df_clean.data = DOMAIN df.data
        /\ \A c \in DOMAIN df.data :
              /\ Len(df_clean.data[c]) = Len(df.data[c])
              /\ c \notin TargetColumns => df_clean.data[c] = df.data[c]

\* C2's case: a target column was changed while a column that is no target
\* holds a cell equal to a placeholder.
C2_Witness ==
    /\ CleanReturned
    /\ df_clean # df
    /\ \E c \in DOMAIN df.data \ TargetColumns :
          \E i \in DOMAIN df.data[c], j \in DOMAIN placeholder_strings.elems :
              df.data[c][i] = placeholder_strings.elems[j]

\* C8: cleaning the cleaned dataset again, with the same placeholder list and
\* the same columns, changes no cell.
C8_CleanIsIdempotent == pc = "recleaned" => df_reclean = df_clean

\* C8's case: the first cleaning replaced cells, with a placeholder listed
\* twice and a column named twice.
C8_Witness ==
    /\ pc = "recleaned"
    /\ df_clean # df
    /\ columns_to_check = << "Age", "Age" >>
    /\ \E i, j \in DOMAIN placeholder_strings.elems :
          i # j /\ placeholder_strings.elems[i] = placeholder_strings.elems[j]

----------------------------------------------------------------------------
(* The claims about the summarizer.                                        *)

\* The summaries were computed: line 50 was passed.
Summarized ==
    \/ pc \in {"request", "eval", "clean", "report", "makedirs", "write"}
    \/ model_calls > 0

\* The text forms of the cells of a column of df.
TextsOf(col) == {AsTypeStr(df.data[col])[i] : i \in DOMAIN df.data[col]}

\* How many cells of a column of df have a text form.
Occurrences(col, text) ==
    Cardinality({i \in DOMAIN df.data[col] : AsTypeStr(df.data[col])[i] = text})

\* C6: a checked column is in the summaries if and only if the text form of
\* one of its cells fails the numeric pattern; a column of numeric-looking
\* values only, and a column with no rows, is left out.
C6_SummarizedIffNonNumeric ==
    Summarized =>
        \A k \in DOMAIN columns_to_check :
            LET col == columns_to_check[k]
            IN  col \in DOMAIN value_counts
                    <=> \E text \in TextsOf(col) : ~NumericMatch(text)

\* C6's case: of two checked columns with rows, one is summarized and the
\* other, holding a number and numeric-looking values only, is not.
C6_Witness ==
    /\ Summarized
    /\ DOMAIN value_counts = {"Sex"}
    /\ columns_to_check = << "Sex", "Age" >>
    /\ df.data["Age"] # << >>
    /\ \E i \in DOMAIN df.data["Age"] : df.data["Age"][i].t = "int"

\* C7: of a summarized column, non_numeric_values holds every distinct text
\* that is not numeric-looking with its number of occurrences, and
\* numeric_examples holds numeric-looking texts with their numbers of
\* occurrences: never more than 5, all of them when there are at most 5, and
\* otherwise 5 of them, none left out occurring more often than one kept.
C7_SummaryContents ==
    pc = "request" =>
        \A col \in DOMAIN value_counts :
            LET numeric == {t \in TextsOf(col) : NumericMatch(t)}
                kept == DOMAIN value_counts[col].numeric_examples
                others == value_counts[col].non_numeric_values
            IN  /\ DOMAIN others = TextsOf(col) \ numeric
                /\ \A t \in DOMAIN others : others[t] = Occurrences(col, t)
                /\ kept \subseteq numeric
                /\ \A t \in kept :
                      value_counts[col].numeric_examples[t] = Occurrences(col, t)
                /\ Cardinality(kept) <= 5
                /\ Cardinality(numeric) <= 5 => kept = numeric
                /\ Cardinality(numeric) > 5 =>
                      /\ Cardinality(kept) = 5
                      /\ \A out \in numeric \ kept : \A in \in kept :
                            Occurrences(col, out) <= Occurrences(col, in)

\* C7's case: a summarized column with more than 5 distinct numeric-looking
\* texts, one left out that occurs less often than one kept.
C7_Witness ==
    /\ pc = "request"
    /\ "Age" \in DOMAIN value_counts
    /\ LET numeric == {t \in TextsOf("Age") : NumericMatch(t)}
           kept == DOMAIN value_counts["Age"].numeric_examples
       IN  /\ Cardinality(numeric) > 5
           /\ \E out \in numeric \ kept : \E in \in kept :
                 Occurrences("Age", out) < Occurrences("Age", in)

----------------------------------------------------------------------------
(* The claims about the run of the command-line tool, under Spec.          *)

\* The dataset was loaded and the columns to check were chosen.
ColumnsChosen == df # None /\ pc \notin {"import", "load", "select", "crashed"}

\* The names of the requested list that are no column of the dataset.
NamesNotInDataset ==
    {columns_to_check[i] : i \in DOMAIN columns_to_check}
        \ {df.columns[j] : j \in DOMAIN df.columns}

\* C3: when a requested name is no column of the dataset, the run fails with
\* an error that lists the invalid names, and no request to the model is made.
C3_InvalidColumnFailsBeforeCall ==
    (ColumnsChosen /\ NamesNotInDataset # {}) =>
        /\ model_calls = 0
        /\ response = None
        /\ pc # "validate" =>
              /\ pc \in {"handler", "done"}
              /\ error # None
              /\ error.what = "columns_not_found"
              /\ {error.names[i] : i \in DOMAIN error.names} = NamesNotInDataset

\* C3's case: a run that ended on the error of the invalid name.
C3_Witness ==
    /\ pc = "done"
    /\ ColumnsChosen
    /\ NamesNotInDataset = {"Zip"}
    /\ error # None
    /\ error.names = << "Zip" >>
    /\ model_calls = 0

\* C4: a reply that is no list-of-strings literal ends in a parse failure and
\* gives the run no placeholder list.
C4_NonListReplyIsParseFailure ==
    (response # None /\ ~IsListOfStrings(response) /\ pc # "eval") =>
        /\ placeholder_strings = None
        /\ error # None
        /\ error.type = "SyntaxError"

\* The keys of the summaries sent to the model.
SummaryKeys ==
    UNION { DOMAIN value_counts[c].numeric_examples
                \cup DOMAIN value_counts[c].non_numeric_values :
            c \in DOMAIN value_counts }

\* C5: every placeholder the cleaner applied is a key of the summaries, and a
\* cell the cleaner replaced had a text form that is a key of the summaries;
\* stated of the runs whose reply is a list-of-strings literal.
C5_PlaceholdersComeFromSummaries ==
    (df_clean # None /\ IsListOfStrings(response)) =>
        /\ \A j \in DOMAIN IterateOver(placeholder_strings) :
              CellText(IterateOver(placeholder_strings)[j], FALSE) \in SummaryKeys
        /\ \A c \in DOMAIN df.data : \A i \in DOMAIN df.data[c] :
              df_clean.data[c][i] # df.data[c][i]
                  => AsTypeStr(df.data[c])[i] \in SummaryKeys

\* The failures of the kinds (b) to (e).
CaughtKinds ==
    {"unsupported_format", "columns_not_found", "eval", "generate_content"}

\* C9: a failure of the kinds (b) to (e) reaches the handler of main, which
\* returns: the exit status is 0 and no file was written.
C9_FailuresAreCaught ==
    (error # None /\ error.what \in CaughtKinds) =>
        /\ pc \in {"handler", "done"}
        /\ written = << >>
        /\ pc = "done" => exit_status = 0

\* C9's case: a run that ended after the reply failed to parse.
C9_Witness ==
    /\ pc = "done"
    /\ error # None
    /\ error.what = "eval"
    /\ model_calls = 1

\* What C10 supposes: the key is set, the file has a supported format and was
\* read, --columns names columns of the dataset only, --output_dir is given.
C10_Given ==
    /\ api_key_set
    /\ args.file_ext \in {"csv", "xlsx", "xls"}
    /\ args.columns # None
    /\ args.output_dir # None
    /\ df # None
    /\ \A i \in DOMAIN args.columns.val :
          \E j \in DOMAIN df.columns : df.columns[j] = args.columns.val[i]

Rank(position) ==
    CASE position = "import" -> 0 [] position = "load" -> 1
      [] position = "select" -> 2 [] position = "validate" -> 3
      [] position = "summarize" -> 4 [] position = "request" -> 5
      [] position = "eval" -> 6 [] position = "clean" -> 7
      [] position = "report" -> 8 [] position = "makedirs" -> 9
      [] position = "write" -> 10 [] position = "handler" -> 11
      [] position = "crashed" -> 12 [] position = "done" -> 12

\* What holds of such a run in every state.
C10_EveryState ==
    C10_Given =>
        /\ pc = "done" => exit_status = 0
        /\ (pc = "done" /\ error = None) =>
              /\ dir_exists
              /\ Len(written) = 1
              /\ model_calls = 1
        /\ written # << >> =>
              /\ Len(written) = 1
              /\ written[1] = [ext |-> args.file_ext, content |-> df_clean]
        /\ error # None => written = << >>

\* What holds of every step: the run moves on, it makes at most one request,
\* and it writes only after the one request and the cleaning, into the
\* directory it made.
C10_EveryStep ==
    /\ Rank(pc') > Rank(pc)
    /\ model_calls' # model_calls => model_calls = 0 /\ model_calls' = 1
    /\ written' # written =>
          /\ written = << >>
          /\ model_calls = 1
          /\ df_clean = CleanDataFrame(df, placeholder_strings, columns_to_check)
          /\ dir_exists

====
